---- MODULE Spec2Model ----
(***************************************************************************)
(* Model of the wind-production scripts: src/windprediction.py (5-day      *)
(* forecast, Rayleigh variant) and src/main.py (48-hour forecast,          *)
(* windpowerlib variant).  Every function of the scripts that the          *)
(* specification speaks about is modelled as a call: Init draws the        *)
(* function and its arguments, the actions run the function's body.        *)
(*                                                                         *)
(* Numbers.  Python floats are modelled exactly on the inputs used here:   *)
(*   - heights, shear exponents and reference speeds are integers, and     *)
(*     extrapolated speeds are rationals <<numerator, denominator>> in     *)
(*     lowest terms with a positive denominator;                           *)
(*   - the speeds given to wind_power are counted in half metres per       *)
(*     second (the step of the speed grid), and powers in units of         *)
(*     1/(CoefScale * SpeedsPerUnit^2) kW, which makes the two quadratic   *)
(*     power curves integer valued;                                        *)
(*   - directions are degrees.                                             *)
(* Python lists are sequences; Python's 0-based positions are 1-based.     *)
(***************************************************************************)
EXTENDS Integers, Sequences, FiniteSets, TLC

VARIABLES
    call, pc, error,
    \* wind_orientation (windprediction.py)
    orientation, energy_3hour_fore, i,
    north, east, south, west,
    north_energy, east_energy, south_energy, west_energy,
    \* wind_vertical_distribution (windprediction.py) and
    \* calculate_vertical_wind_distribution (main.py)
    area_roughness, roughness_coefficient, height_rotor, height_forecast,
    velocity, wind_velocity_real,
    forecast_velocity, forecast_passed, returned,
    \* wind_power (windprediction.py)
    wind_vel, distribution, speeds, time,
    power_production_curve, hours, power_speed, j,
    energy_out, energy_per_3hours, energy_all,
    \* rayleigh (windprediction.py)
    wind_velocity, scale, rayleigh_shape,
    \* iterate_turbine_library, find_maximum_power (main.py)
    turbine_database, results, max_idx, plotted,
    \* read_excel (windprediction.py); its lists north, south, east and west
    \* are the variables of those names above
    historical_data, historical_new

ctlVars == <<call, pc, error>>

orientVars ==
    <<orientation, energy_3hour_fore, i, north, east, south, west,
      north_energy, east_energy, south_energy, west_energy>>

extrapVars ==
    <<area_roughness, roughness_coefficient, height_rotor, height_forecast,
      velocity, wind_velocity_real, forecast_velocity, forecast_passed,
      returned>>

powerVars ==
    <<wind_vel, distribution, speeds, time, power_production_curve, hours,
      power_speed, j, energy_out, energy_per_3hours, energy_all>>

rayVars == <<wind_velocity, scale, rayleigh_shape>>

turbVars == <<turbine_database, results, max_idx, plotted>>

excelVars == <<historical_data, historical_new>>

vars ==
    <<ctlVars, orientVars, extrapVars, powerVars, rayVars, turbVars,
      excelVars>>

(***************************************************************************)
(* Bounds of the model.                                                    *)
(***************************************************************************)
\* Longest forecast (records per call).
MaxRecords == 2
\* Directions are drawn within DirSpread degrees of each sector edge.
DirSpread == 1
\* The energy of a turbine is drawn from 0..MaxEnergy.
MaxEnergy == 1
\* Reference speeds are drawn from -1..MaxSpeed (m/s).
MaxSpeed == 2
\* Heights are drawn from -1..MaxHeight (m).
MaxHeight == 2
\* Shear exponents are drawn from -1..MaxExp.
MaxExp == 2
\* wind_power's speeds are drawn within SpeedSpread grid steps of 0, 9 and
\* 20 m/s.
SpeedSpread == 1
\* Largest turbine library.
MaxTurbines == 3

(***************************************************************************)
(* Helpers: sequences and exact rational arithmetic.                       *)
(***************************************************************************)
SeqsUpTo(S, n) == UNION {[1..k -> S] : k \in 0..n}

Abs(x) == IF x < 0 THEN -x ELSE x

RECURSIVE GCD(_, _)
GCD(a, b) == IF b = 0 THEN a ELSE GCD(b, a % b)

\* The rational n/d (d # 0) in lowest terms, denominator positive.
Rat(n, d) ==
    LET g == GCD(Abs(n), Abs(d))
        s == IF d < 0 THEN -1 ELSE 1
    IN  <<(s * n) \div g, (s * d) \div g>>

RatOfInt(n) == <<n, 1>>

RatMul(a, b) == Rat(a[1] * b[1], a[2] * b[2])

RatAdd(a, b) == Rat(a[1] * b[2] + b[1] * a[2], a[2] * b[2])

RECURSIVE RatPowNat(_, _)
RatPowNat(a, e) == IF e = 0 THEN <<1, 1>> ELSE RatMul(a, RatPowNat(a, e - 1))

\* The sum of s[lo..hi].
RECURSIVE SumRange(_, _, _)
SumRange(s, lo, hi) ==
    IF lo > hi THEN 0
    ELSE IF lo = hi THEN s[lo]
    ELSE LET mid == (lo + hi) \div 2
         IN  SumRange(s, lo, mid) + SumRange(s, mid + 1, hi)

SumSeq(s) == SumRange(s, 1, Len(s))

None == <<"None">>

(***************************************************************************)
(* The variables of the functions that are not being called.               *)
(***************************************************************************)
OrientIdle ==
    /\ orientation = <<>> /\ energy_3hour_fore = <<>> /\ i = 0
    /\ north = <<>> /\ east = <<>> /\ south = <<>> /\ west = <<>>
    /\ north_energy = <<>> /\ east_energy = <<>>
    /\ south_energy = <<>> /\ west_energy = <<>>

ExtrapIdle ==
    /\ area_roughness = 0 /\ roughness_coefficient = 0
    /\ height_rotor = 0 /\ height_forecast = 0
    /\ velocity = <<>> /\ wind_velocity_real = <<>>
    /\ forecast_velocity = None /\ forecast_passed = None /\ returned = None

PowerIdle ==
    /\ wind_vel = <<>> /\ distribution = <<>> /\ speeds = <<>> /\ time = <<>>
    /\ power_production_curve = <<>> /\ hours = <<>> /\ power_speed = <<>>
    /\ j = 0 /\ energy_out = <<>> /\ energy_per_3hours = <<>>
    /\ energy_all = 0

RayIdle == wind_velocity = <<>> /\ scale = <<>> /\ rayleigh_shape = None

TurbIdle ==
    /\ turbine_database = <<>> /\ results = <<>> /\ max_idx = 0
    /\ plotted = None

ExcelIdle == historical_data = <<>> /\ historical_new = <<>>

(***************************************************************************)
(* wind_orientation(orientation, wind, energy_3hour_fore)                  *)
(* src/windprediction.py 179-210.  The parameter wind is never read.       *)
(***************************************************************************)
\* The edges of the compass sectors that the conditions compare with.
SectorEdges == {0, 45, 135, 225, 315, 360}

Directions == {e + k : e \in SectorEdges, k \in (-DirSpread)..DirSpread}

\* The north test written with "and" where the code has "or", as read_excel
\* writes it.
SectorNorthAnd(x) ==
    IF x <= 45 /\ x >= 315 THEN "north"
    ELSE IF x > 45 /\ x <= 135 THEN "east"
    ELSE IF x > 135 /\ x <= 225 THEN "south"
    ELSE IF x > 225 /\ x < 315 THEN "west"
    ELSE "none"

\* The if/elif chain of lines 190-201: the branch taken for direction x,
\* "none" when no branch is taken (the chain has no else).
Sector(x) ==
    IF (x >= 0 /\ x <= 45) \/ (x >= 315 /\ x <= 360) THEN "north"
    ELSE IF x > 45 /\ x <= 135 THEN "east"
    ELSE IF x > 135 /\ x <= 225 THEN "south"
    ELSE IF x > 225 /\ x < 315 THEN "west"
    ELSE "none"

InitWindOrientation ==
    /\ call = "wind_orientation" /\ pc = "run" /\ error = "none"
    /\ \E n \in 0..MaxRecords :
          /\ orientation \in [1..n -> Directions]
          \* the energy of the k-th step is k, so that an energy in a
          \* sector's list names the record it came from
          /\ energy_3hour_fore = [k \in 1..n |-> k]
    /\ i = 0
    /\ north = <<>> /\ east = <<>> /\ south = <<>> /\ west = <<>>
    /\ north_energy = <<>> /\ east_energy = <<>>
    /\ south_energy = <<>> /\ west_energy = <<>>
    /\ ExtrapIdle /\ PowerIdle /\ RayIdle /\ TurbIdle /\ ExcelIdle

\* One pass of the loop of line 189.
WindOrientationStep ==
    /\ call = "wind_orientation" /\ pc = "run"
    /\ i < Len(orientation)
    /\ i' = i + 1
    /\ LET x == orientation[i + 1]
           e == energy_3hour_fore[i + 1]
           s == Sector(x)
       IN  /\ north' = IF s = "north" THEN Append(north, x) ELSE north
           /\ north_energy' =
                 IF s = "north" THEN Append(north_energy, e) ELSE north_energy
           /\ east' = IF s = "east" THEN Append(east, x) ELSE east
           /\ east_energy' =
                 IF s = "east" THEN Append(east_energy, e) ELSE east_energy
           /\ south' = IF s = "south" THEN Append(south, x) ELSE south
           /\ south_energy' =
                 IF s = "south" THEN Append(south_energy, e) ELSE south_energy
           /\ west' = IF s = "west" THEN Append(west, x) ELSE west
           /\ west_energy' =
                 IF s = "west" THEN Append(west_energy, e) ELSE west_energy
    /\ UNCHANGED <<ctlVars, orientation, energy_3hour_fore>>
    /\ UNCHANGED <<extrapVars, powerVars, rayVars, turbVars, excelVars>>

\* The loop is over: the sector lists and energy sums are printed (203-210)
\* and the function returns.
WindOrientationReturn ==
    /\ call = "wind_orientation" /\ pc = "run"
    /\ i = Len(orientation)
    /\ pc' = "done"
    /\ UNCHANGED <<call, error, orientVars>>
    /\ UNCHANGED <<extrapVars, powerVars, rayVars, turbVars, excelVars>>


(***************************************************************************)
(* Python arithmetic on floats, on the inputs of the model.                *)
(***************************************************************************)
\* a / b raises ZeroDivisionError when b == 0.
DivRaises(a, b) == b = 0

PyDiv(a, b) == Rat(a, b)

\* pow(base, e) raises ZeroDivisionError for a zero base and a negative
\* exponent.
PowRaises(base, e) == base[1] = 0 /\ e < 0

\* pow(base, e) for a rational base and an integer exponent.
PyPow(base, e) ==
    IF e >= 0 THEN RatPowNat(base, e)
    ELSE RatPowNat(Rat(base[2], base[1]), -e)

Speeds == (-1)..MaxSpeed

Heights == (-1)..MaxHeight

Exponents == (-1)..MaxExp

(***************************************************************************)
(* wind_vertical_distribution(area_roughness, height_rotor,                *)
(*                            height_forecast, velocity)                   *)
(* src/windprediction.py 152-160.                                          *)
(***************************************************************************)
\* Line 158 with "+" where the code has "*".
ScaleVelocityAdd(v, constant) == RatAdd(RatOfInt(v), constant)

\* Line 158: velocity[i]*constant.
ScaleVelocity(v, constant) == RatMul(RatOfInt(v), constant)

\* Lines 153-160: the list returned; area_roughness is not read.
WindVelocityReal(roughness, h_rotor, h_forecast, vel) ==
    LET constant == PyDiv(h_rotor, h_forecast)
    IN  [k \in 1..Len(vel) |-> ScaleVelocity(vel[k], constant)]

InitWindVerticalDistribution ==
    /\ call = "wind_vertical_distribution" /\ pc = "run" /\ error = "none"
    /\ area_roughness \in Exponents
    /\ roughness_coefficient = 0
    /\ height_rotor \in Heights
    /\ height_forecast \in Heights
    /\ velocity \in SeqsUpTo(Speeds, MaxRecords)
    /\ forecast_passed = velocity
    /\ wind_velocity_real = <<>>
    /\ forecast_velocity = None /\ returned = None
    /\ OrientIdle /\ PowerIdle /\ RayIdle /\ TurbIdle /\ ExcelIdle

\* The call: line 154 raises for a zero height_forecast, otherwise the list
\* is built and returned.
WindVerticalDistribution ==
    /\ call = "wind_vertical_distribution" /\ pc = "run"
    /\ IF DivRaises(height_rotor, height_forecast)
       THEN /\ pc' = "raised" /\ error' = "ZeroDivisionError"
            /\ UNCHANGED <<wind_velocity_real, returned>>
       ELSE /\ pc' = "done" /\ error' = "none"
            /\ wind_velocity_real' =
                  WindVelocityReal(area_roughness, height_rotor,
                                   height_forecast, velocity)
            /\ returned' = wind_velocity_real'
    /\ UNCHANGED <<call, area_roughness, roughness_coefficient, height_rotor,
                   height_forecast, velocity, forecast_velocity,
                   forecast_passed>>
    /\ UNCHANGED <<orientVars, powerVars, rayVars, turbVars, excelVars>>

(***************************************************************************)
(* Data frames (pandas).  A frame has an index of n rows, column labels    *)
(* and one sequence of n values per column.  A flat label is <<name>>, a   *)
(* label of a two-level MultiIndex is <<name, height>>.                    *)
(***************************************************************************)
HasColumn(df, label) == \E k \in 1..Len(df.columns) : df.columns[k] = label

ColumnPos(df, label) ==
    CHOOSE k \in 1..Len(df.columns) : df.columns[k] = label

Column(df, label) == df.data[ColumnPos(df, label)]

\* df[label] = vals, on the frame itself: an existing column is
\* overwritten, a new one is added on the right.
SetColumn(df, label, vals) ==
    IF HasColumn(df, label)
    THEN [df EXCEPT !.data[ColumnPos(df, label)] = vals]
    ELSE [df EXCEPT !.columns = Append(@, label), !.data = Append(@, vals)]

\* df.rename(columns={old: new}): a new frame; the names of the labels that
\* equal old become new (the heights are numbers and never equal the key).
RenameColumns(df, old, new) ==
    [df EXCEPT !.columns =
        [k \in 1..Len(@) |->
            IF @[k][1] = old THEN [@[k] EXCEPT ![1] = new] ELSE @[k]]]

\* The frame clean_data returns (main.py 38-45) for the given wind speeds:
\* columns wind_speed, pressure, temperature.
CleanFrame(ws) ==
    [index   |-> Len(ws),
     columns |-> << <<"wind_speed">>, <<"pressure">>, <<"temperature">> >>,
     data    |-> << [k \in 1..Len(ws) |-> RatOfInt(ws[k])],
                    [k \in 1..Len(ws) |-> RatOfInt(101300)],
                    [k \in 1..Len(ws) |-> RatOfInt(280)] >>]

\* Line 66: the two arrays of the MultiIndex, label by label.
MultiIndexLabels ==
    << <<"wind_speed", 10>>, <<"pressure", 0>>, <<"temperature", 2>>,
       <<"roughness_length", 0>>, <<"wind_speed_100", 100>> >>

(***************************************************************************)
(* calculate_vertical_wind_distribution(roughness_coefficient,             *)
(*     height_rotor, height_forecast, forecast_velocity)                   *)
(* src/main.py 48-70.                                                      *)
(***************************************************************************)
\* Lines 63-64: wind_speed * pow(height_rotor/height_forecast, roughness).
HubSpeedColumn(df, h_rotor, h_forecast, roughness) ==
    LET factor == PyPow(PyDiv(h_rotor, h_forecast), roughness)
    IN  [k \in 1..df.index |->
            RatMul(Column(df, <<"wind_speed">>)[k], factor)]

InitCalculateVerticalWindDistribution ==
    /\ call = "calculate_vertical_wind_distribution"
    /\ pc = "run" /\ error = "none"
    /\ roughness_coefficient \in Exponents
    /\ area_roughness = 0
    /\ height_rotor \in Heights
    /\ height_forecast \in Heights
    /\ \E ws \in SeqsUpTo(Speeds, MaxRecords) :
          forecast_velocity = CleanFrame(ws)
    /\ forecast_passed = forecast_velocity
    /\ velocity = <<>> /\ wind_velocity_real = <<>>
    /\ returned = None
    /\ OrientIdle /\ PowerIdle /\ RayIdle /\ TurbIdle /\ ExcelIdle

\* The call.  forecast_velocity is the caller's frame: lines 62, 63 and 67
\* assign into it, line 68 makes the new frame that is returned.
CalculateVerticalWindDistribution ==
    /\ call = "calculate_vertical_wind_distribution" /\ pc = "run"
    /\ LET df1 == SetColumn(forecast_velocity, <<"roughness_length">>,
                            [k \in 1..forecast_velocity.index |->
                                RatOfInt(roughness_coefficient)])
       IN  IF \/ DivRaises(height_rotor, height_forecast)
              \/ PowRaises(PyDiv(height_rotor, height_forecast),
                           roughness_coefficient)
           THEN /\ pc' = "raised" /\ error' = "ZeroDivisionError"
                /\ forecast_velocity' = df1
                /\ returned' = None
           ELSE LET df2 == SetColumn(df1, <<"wind_speed_100">>,
                               HubSpeedColumn(df1, height_rotor,
                                   height_forecast, roughness_coefficient))
                IN  IF Len(df2.columns) # Len(MultiIndexLabels)
                    THEN /\ pc' = "raised" /\ error' = "ValueError"
                         /\ forecast_velocity' = df2
                         /\ returned' = None
                    ELSE LET df3 == [df2 EXCEPT !.columns = MultiIndexLabels]
                         IN  /\ pc' = "done" /\ error' = "none"
                             /\ forecast_velocity' = df3
                             /\ returned' =
                                   RenameColumns(df3, "wind_speed_100",
                                                 "wind_speed")
    /\ UNCHANGED <<call, area_roughness, roughness_coefficient, height_rotor,
                   height_forecast, velocity, wind_velocity_real,
                   forecast_passed>>
    /\ UNCHANGED <<orientVars, powerVars, rayVars, turbVars, excelVars>>


(***************************************************************************)
(* wind_power(wind_vel, distribution, speeds, time)                        *)
(* src/windprediction.py 77-119.                                           *)
(* Speeds are counted in grid steps (SpeedsPerUnit steps per m/s), powers  *)
(* in 1/PowerScale kW.                                                     *)
(***************************************************************************)
\* Steps of the speed grid per m/s: np.arange(0, 20.5, 0.5).
SpeedsPerUnit == 2
\* The grid has 41 speeds, 0 to 20 m/s.
GridLen == 41
\* The coefficients of the power curves have four decimals.
CoefScale == 10000
\* Rated speed (m/s), rated power (kW) and the speed above which the curve
\* is zero (m/s).
RatedSpeed == 9
RatedPower == 12
CutOffSpeed == 20
\* Hours in a forecast step.
HoursPerStep == 3
\* The shape rayleigh gives to the probabilities.
RayleighRows == 40
RayleighCols == 41

PowerScale == CoefScale * SpeedsPerUnit * SpeedsPerUnit

\* Line 83: 0.2277*(i**2)-0.8124*i+0.4256, and line 99:
\* 0.0166*(i**2)-0.0489*i+0.0083, as <<a, b, c>> times CoefScale.
ProductionCoefficients == <<2277, 8124, 4256>>

SpeedCoefficients == <<166, 489, 83>>

\* a*v^2 - b*v + c at speed v, in 1/PowerScale kW.
Quadratic(coef, v) ==
    coef[1] * v * v - coef[2] * v * SpeedsPerUnit
        + coef[3] * SpeedsPerUnit * SpeedsPerUnit

\* The branch of the chains of lines 82-90 and 98-106 that speed v takes;
\* "none" for a speed below 0, which matches no branch and adds no entry.
Branch(v) ==
    IF v < RatedSpeed * SpeedsPerUnit /\ v >= 0 THEN "curve"
    ELSE IF v >= RatedSpeed * SpeedsPerUnit /\ v <= CutOffSpeed * SpeedsPerUnit
    THEN "rated"
    ELSE IF v > CutOffSpeed * SpeedsPerUnit THEN "zero"
    ELSE "none"

\* Lines 84-86 and 100-102: a negative entry becomes 0.  The loop runs over
\* the whole list right after each entry of the curve branch is added, so
\* it is that entry it changes.
ClampNegative(p) == IF p < 0 THEN 0 ELSE p

\* The entry a speed v >= 0 adds to the list.
Entry(coef, v) ==
    IF Branch(v) = "curve" THEN ClampNegative(Quadratic(coef, v))
    ELSE IF Branch(v) = "rated" THEN RatedPower * PowerScale
    ELSE 0

\* The loops of lines 81-90 and 97-106 over the speeds vs: the list built,
\* one entry per speed that takes a branch, and the value the loops leave
\* in j: the position of the last entry added by the curve branch (jj when
\* that branch was never taken).
PowerLoop(vs, coef, jj) ==
    LET Taken(v) == Branch(v) # "none"
        kept == SelectSeq(vs, Taken)
        curveAt == {k \in 1..Len(kept) : Branch(kept[k]) = "curve"}
    IN  [curve |-> [k \in 1..Len(kept) |-> Entry(coef, kept[k])],
         j |-> IF curveAt = {} THEN jj
               ELSE CHOOSE k \in curveAt : \A m \in curveAt : m <= k]

\* Line 95: distribution[i]*time[i], element by element.
Hours(dist, tm) ==
    [r \in 1..Len(dist) |->
        [k \in 1..Len(dist[r]) |-> dist[r][k] * tm[r][k]]]

\* Line 111: power_speed[j]*hours[i], the one number times the whole row.
EnergyOut(ps, jj, hrs) ==
    IF hrs = <<>> THEN <<>>
    ELSE [r \in 1..Len(hrs) |-> [k \in 1..Len(hrs[r]) |-> ps[jj] * hrs[r][k]]]

\* np.sum(m, axis=1) raises AxisError for an empty list (an array of one
\* dimension).
SumAxis1Raises(m) == m = <<>>

SumAxis1(m) == [r \in 1..Len(m) |-> SumSeq(m[r])]

\* speeds as rayleigh returns it: np.arange(0, 20.5, 0.5).
SpeedGrid == [k \in 1..GridLen |-> k - 1]

\* The speeds wind_power is given: around 0, the rated and the cut-off
\* speed.
WindVelSamples ==
    {e * SpeedsPerUnit + k :
        e \in {0, RatedSpeed, CutOffSpeed}, k \in (-SpeedSpread)..SpeedSpread}

\* The rows of distribution: all the probability at the first or at the
\* last speed of the grid.
DistributionRows ==
    {[k \in 1..GridLen |-> IF k = b THEN 1 ELSE 0] : b \in {1, GridLen}}

InitWindPower ==
    /\ call = "wind_power" /\ pc = "run" /\ error = "none"
    /\ \E n \in 0..MaxRecords :
          /\ wind_vel \in [1..n -> WindVelSamples]
          /\ distribution \in [1..n -> DistributionRows]
    /\ speeds = SpeedGrid
    \* rayleigh, line 146: time[i] = rayleigh[i]*3
    /\ time = [r \in 1..Len(distribution) |->
                  [k \in 1..GridLen |-> distribution[r][k] * HoursPerStep]]
    /\ power_production_curve = <<>> /\ hours = <<>> /\ power_speed = <<>>
    /\ j = 0 /\ energy_out = <<>> /\ energy_per_3hours = <<>>
    /\ energy_all = 0
    /\ OrientIdle /\ ExtrapIdle /\ RayIdle /\ TurbIdle /\ ExcelIdle

\* The call.  j = 0 stands for a j that was never assigned.
WindPower ==
    /\ call = "wind_power" /\ pc = "run"
    /\ LET first == PowerLoop(wind_vel, ProductionCoefficients, 0)
       IN  /\ power_production_curve' = first.curve
           /\ hours' = Hours(distribution, time)
           /\ LET second == PowerLoop(speeds, SpeedCoefficients, first.j)
              IN  power_speed' = second.curve /\ j' = second.j
    /\ IF hours' # <<>> /\ j' = 0
       THEN /\ pc' = "raised" /\ error' = "NameError"
            /\ UNCHANGED <<energy_out, energy_per_3hours, energy_all>>
       ELSE IF hours' # <<>> /\ j' > Len(power_speed')
       THEN /\ pc' = "raised" /\ error' = "IndexError"
            /\ UNCHANGED <<energy_out, energy_per_3hours, energy_all>>
       ELSE /\ energy_out' = EnergyOut(power_speed', j', hours')
            /\ IF SumAxis1Raises(energy_out')
               THEN /\ pc' = "raised" /\ error' = "AxisError"
                    /\ UNCHANGED <<energy_per_3hours, energy_all>>
               ELSE /\ pc' = "done" /\ error' = "none"
                    /\ energy_per_3hours' = SumAxis1(energy_out')
                    /\ energy_all' = SumSeq(energy_per_3hours')
    /\ UNCHANGED <<call, wind_vel, distribution, speeds, time>>
    /\ UNCHANGED <<orientVars, extrapVars, rayVars, turbVars, excelVars>>

(***************************************************************************)
(* rayleigh(wind_velocity)  src/windprediction.py 121-149.                 *)
(* The probabilities themselves (exponentials) are not modelled, only how  *)
(* many of them there are and the shape they are given.                    *)
(***************************************************************************)
\* Line 142: np.reshape(rayleigh1, (40,41)) raises ValueError unless the
\* list holds 40*41 numbers.
ReshapeRaises(count) == count # RayleighRows * RayleighCols

InitRayleigh ==
    /\ call = "rayleigh" /\ pc = "run" /\ error = "none"
    /\ \/ wind_velocity \in SeqsUpTo(Speeds, MaxRecords)
       \/ \E v \in Speeds : wind_velocity = [k \in 1..RayleighRows |-> v]
    /\ scale = <<>> /\ rayleigh_shape = None
    /\ OrientIdle /\ ExtrapIdle /\ PowerIdle /\ TurbIdle /\ ExcelIdle

\* The call: scale holds one factor per record (in units of sqrt(2/pi)),
\* rayleigh1 one probability per record and grid speed.
Rayleigh ==
    /\ call = "rayleigh" /\ pc = "run"
    /\ scale' = wind_velocity
    /\ IF ReshapeRaises(Len(wind_velocity) * GridLen)
       THEN /\ pc' = "raised" /\ error' = "ValueError"
            /\ UNCHANGED rayleigh_shape
       ELSE /\ pc' = "done" /\ error' = "none"
            /\ rayleigh_shape' = <<RayleighRows, RayleighCols>>
    /\ UNCHANGED <<call, wind_velocity>>
    /\ UNCHANGED <<orientVars, extrapVars, powerVars, turbVars, excelVars>>

(***************************************************************************)
(* iterate_turbine_library and find_maximum_power  src/main.py 81-99,      *)
(* 140-154.  A turbine's hourly output comes from windpowerlib; its sum is *)
(* drawn from 0..MaxEnergy.                                                *)
(***************************************************************************)
Energies(res) == [k \in 1..Len(res) |-> res[k].energy_produced_kWh]

\* idxmax keeping the last of several maxima.
RECURSIVE IdxMaxLast(_, _, _)
IdxMaxLast(s, k, best) ==
    IF k > Len(s) THEN best
    ELSE IdxMaxLast(s, k + 1, IF s[k] >= s[best] THEN k ELSE best)

\* Series.idxmax (line 149): the position of the first maximum, scanning
\* from position k with the best so far.
RECURSIVE IdxMax(_, _, _)
IdxMax(s, k, best) ==
    IF k > Len(s) THEN best
    ELSE IdxMax(s, k + 1, IF s[k] > s[best] THEN k ELSE best)

\* find_maximum_power returning the last of several maxima.
FindMaximumPowerLast(res) == IdxMaxLast(Energies(res), 1, 1)

\* find_maximum_power(results): the position returned.
FindMaximumPower(res) == IdxMax(Energies(res), 1, 1)

InitIterateTurbineLibrary ==
    /\ call = "iterate_turbine_library" /\ pc = "run" /\ error = "none"
    /\ \E n \in 0..MaxTurbines : turbine_database = [k \in 1..n |-> k]
    /\ results = <<>> /\ max_idx = 0 /\ plotted = None
    /\ OrientIdle /\ ExtrapIdle /\ PowerIdle /\ RayIdle /\ ExcelIdle

\* One pass of the loop of lines 89-96.
IterateTurbine ==
    /\ call = "iterate_turbine_library" /\ pc = "run"
    /\ Len(results) < Len(turbine_database)
    /\ \E e \in 0..MaxEnergy :
          results' = Append(results,
              [turbine_type |-> turbine_database[Len(results) + 1],
               energy_produced_kWh |-> e])
    /\ UNCHANGED <<ctlVars, turbine_database, max_idx, plotted>>
    /\ UNCHANGED <<orientVars, extrapVars, powerVars, rayVars, excelVars>>

\* Lines 98-99: the best turbine is found and plotted.  With no results the
\* frame of line 147 has no energy column and line 149 raises KeyError.
SelectAndPlot ==
    /\ call = "iterate_turbine_library" /\ pc = "run"
    /\ Len(results) = Len(turbine_database)
    /\ IF results = <<>>
       THEN /\ pc' = "raised" /\ error' = "KeyError"
            /\ UNCHANGED <<max_idx, plotted>>
       ELSE /\ pc' = "done" /\ error' = "none"
            /\ max_idx' = FindMaximumPower(results)
            /\ plotted' = results[max_idx']
    /\ UNCHANGED <<call, turbine_database, results>>
    /\ UNCHANGED <<orientVars, extrapVars, powerVars, rayVars, excelVars>>

(***************************************************************************)
(* read_excel()  src/windprediction.py 212-251.                            *)
(* A row of wind_dir.csv is <<speed, power, orientation>>.                 *)
(***************************************************************************)
\* The directions of the historical rows: each sector edge and the degree
\* below it.
HistoricalDirections == {e + k : e \in SectorEdges, k \in {-1, 0}}

HistoricalRows ==
    {<<RatedSpeed, p, d>> : p \in {0, RatedPower}, d \in HistoricalDirections}

\* The if/elif chain of lines 236-243 for direction x, "none" when no
\* branch is taken.
HistoricalSector(x) ==
    IF x <= 45 /\ x >= 315 THEN "north"
    ELSE IF x <= 135 /\ x > 45 THEN "east"
    ELSE IF x <= 225 /\ x > 135 THEN "south"
    ELSE IF x < 315 /\ x > 225 THEN "west"
    ELSE "none"

\* Lines 223-228: the rows whose power is not 0, in file order.
NonZeroPower(rows) ==
    LET Producing(row) == row[2] # 0
    IN  SelectSeq(rows, Producing)

InitReadExcel ==
    /\ call = "read_excel" /\ pc = "run" /\ error = "none"
    /\ historical_data \in SeqsUpTo(HistoricalRows, MaxRecords)
    /\ historical_new = <<>>
    /\ OrientIdle /\ ExtrapIdle /\ PowerIdle /\ RayIdle /\ TurbIdle

\* Lines 214-233: the file is read and the rows without power are left
\* out.  A file with no data row gives an array of one dimension, and
\* historical_data[:,1] (line 218) raises IndexError.
ReadExcelLoad ==
    /\ call = "read_excel" /\ pc = "run"
    /\ IF historical_data = <<>>
       THEN /\ pc' = "raised" /\ error' = "IndexError"
            /\ UNCHANGED historical_new
       ELSE /\ pc' = "classify" /\ error' = "none"
            /\ historical_new' = NonZeroPower(historical_data)
    /\ UNCHANGED <<call, historical_data, orientVars>>
    /\ UNCHANGED <<extrapVars, powerVars, rayVars, turbVars>>

\* One pass of the loop of line 235.
ReadExcelStep ==
    /\ call = "read_excel" /\ pc = "classify"
    /\ i < Len(historical_new)
    /\ i' = i + 1
    /\ LET row == historical_new[i + 1]
           s == HistoricalSector(row[3])
       IN  /\ north' = IF s = "north" THEN Append(north, row) ELSE north
           /\ east' = IF s = "east" THEN Append(east, row) ELSE east
           /\ south' = IF s = "south" THEN Append(south, row) ELSE south
           /\ west' = IF s = "west" THEN Append(west, row) ELSE west
    /\ UNCHANGED <<ctlVars, excelVars, orientation, energy_3hour_fore,
                   north_energy, east_energy, south_energy, west_energy>>
    /\ UNCHANGED <<extrapVars, powerVars, rayVars, turbVars>>

\* Lines 245-251: the four lists are returned as arrays.
ReadExcelReturn ==
    /\ call = "read_excel" /\ pc = "classify"
    /\ i = Len(historical_new)
    /\ pc' = "done"
    /\ UNCHANGED <<call, error, excelVars, orientVars>>
    /\ UNCHANGED <<extrapVars, powerVars, rayVars, turbVars>>

(***************************************************************************)
(* The specification.                                                      *)
(***************************************************************************)
Init ==
    \/ InitWindOrientation
    \/ InitWindVerticalDistribution
    \/ InitCalculateVerticalWindDistribution
    \/ InitWindPower
    \/ InitRayleigh
    \/ InitIterateTurbineLibrary
    \/ InitReadExcel

Next ==
    \/ WindOrientationStep
    \/ WindOrientationReturn
    \/ WindVerticalDistribution
    \/ CalculateVerticalWindDistribution
    \/ WindPower
    \/ Rayleigh
    \/ IterateTurbine
    \/ SelectAndPlot
    \/ ReadExcelLoad
    \/ ReadExcelStep
    \/ ReadExcelReturn

Spec == Init /\ [][Next]_vars


(***************************************************************************)
(* Properties.                                                             *)
(***************************************************************************)
Extrapolators ==
    {"wind_vertical_distribution", "calculate_vertical_wind_distribution"}

\* The reference speeds of the call, as passed in.
ReferenceSpeeds ==
    IF call = "wind_vertical_distribution"
    THEN [k \in 1..Len(forecast_passed) |-> RatOfInt(forecast_passed[k])]
    ELSE Column(forecast_passed, <<"wind_speed">>)

\* The hub-height speeds the call returned.
HubSpeeds ==
    IF call = "wind_vertical_distribution" THEN returned
    ELSE Column(returned, <<"wind_speed", 100>>)

\* The shear exponent passed to the call.
ShearExponent ==
    IF call = "wind_vertical_distribution" THEN area_roughness
    ELSE roughness_coefficient

ValidExtrapolation ==
    /\ height_rotor > 0 /\ height_forecast > 0
    /\ \A k \in 1..Len(ReferenceSpeeds) : ReferenceSpeeds[k][1] >= 0

\* C1: wind_orientation places every record whose direction d is in
\* [0,360) in exactly one sector: north iff d in [0,45] or [315,360), east
\* iff d in (45,135], south iff d in (135,225], west iff d in (225,315).
C1_ExactlyOneSector ==
    [][(call = "wind_orientation" /\ i' = i + 1
          /\ orientation[i'] >= 0 /\ orientation[i'] < 360)
        => LET d == orientation[i']
               e == energy_3hour_fore[i']
               inNorth == (d >= 0 /\ d <= 45) \/ (d >= 315 /\ d < 360)
               inEast  == d > 45 /\ d <= 135
               inSouth == d > 135 /\ d <= 225
               inWest  == d > 225 /\ d < 315
           IN  /\ Cardinality({b \in {inNorth, inEast, inSouth, inWest} : b})
                     >= 1
               /\ ~(inNorth /\ inEast) /\ ~(inNorth /\ inSouth)
               /\ ~(inNorth /\ inWest) /\ ~(inEast /\ inSouth)
               /\ ~(inEast /\ inWest) /\ ~(inSouth /\ inWest)
               /\ north' = IF inNorth THEN Append(north, d) ELSE north
               /\ north_energy' =
                     IF inNorth THEN Append(north_energy, e) ELSE north_energy
               /\ east' = IF inEast THEN Append(east, d) ELSE east
               /\ east_energy' =
                     IF inEast THEN Append(east_energy, e) ELSE east_energy
               /\ south' = IF inSouth THEN Append(south, d) ELSE south
               /\ south_energy' =
                     IF inSouth THEN Append(south_energy, e) ELSE south_energy
               /\ west' = IF inWest THEN Append(west, d) ELSE west
               /\ west_energy' =
                     IF inWest THEN Append(west_energy, e) ELSE west_energy
      ]_vars

\* A forecast of two in-range records on either side of the 315 edge has
\* been classified: 315 went north, 314 west.
C1_Witness ==
    /\ call = "wind_orientation" /\ pc = "done"
    /\ orientation = <<315, 314>>
    /\ north = <<315>> /\ west = <<314>> /\ east = <<>> /\ south = <<>>

\* C2: for reference speeds >= 0, heights > 0 and shear exponent e, both
\* extrapolators return hub_speed = reference_speed *
\* (hub_height / reference_height) ^ e for every record.
C2_PowerLaw ==
    (call \in Extrapolators /\ pc # "run" /\ ValidExtrapolation)
      => /\ pc = "done"
         /\ HubSpeeds =
               [k \in 1..Len(ReferenceSpeeds) |->
                   RatMul(ReferenceSpeeds[k],
                          PyPow(Rat(height_rotor, height_forecast),
                                ShearExponent))]

\* C5: with reference height equal to hub height (> 0), reference speeds
\* >= 0 and any shear exponent, both extrapolators return the reference
\* speeds unchanged.
C5_IdentityAtEqualHeights ==
    (call \in Extrapolators /\ pc # "run" /\ ValidExtrapolation
        /\ height_rotor = height_forecast)
      => /\ pc = "done"
         /\ HubSpeeds = ReferenceSpeeds

\* An extrapolation from 2 m to 2 m with exponent -1 of two records, one
\* of them 2 m/s, has returned.
C5_Witness ==
    /\ call \in Extrapolators /\ pc = "done"
    /\ height_rotor = 2 /\ height_forecast = 2 /\ ShearExponent = -1
    /\ Len(ReferenceSpeeds) = 2
    /\ ReferenceSpeeds[2] = RatOfInt(2)
    /\ HubSpeeds[2] = RatOfInt(2)

\* C7: when reference_height <= 0, hub_height <= 0 or a reference speed is
\* negative, the extrapolator fails with InvalidParameter and returns no
\* hub speed.
C7_InvalidParametersRejected ==
    (call \in Extrapolators /\ pc # "run" /\ ~ValidExtrapolation)
      => /\ pc = "raised"
         /\ error = "InvalidParameter"
         /\ returned = None

\* C9: after an extrapolator returns, the table or array the caller passed
\* in has the same columns, labels and values as before the call.
C9_InputUnchanged ==
    (call \in Extrapolators /\ pc = "done")
      => IF call = "wind_vertical_distribution"
         THEN velocity = forecast_passed
         ELSE forecast_velocity = forecast_passed


\* The lower end of the speeds the power curve of wind_power covers (m/s).
CutInSpeed == 0

\* C3: wind_power assigns power 0 to every record whose speed is below the
\* cut-in speed or above the cut-off speed, and the curve's value to every
\* record whose speed is strictly inside the envelope.
C3_ZeroOutsideEnvelope ==
    (call = "wind_power" /\ pc = "done")
      => \A k \in 1..Len(wind_vel) :
            /\ k \in 1..Len(power_production_curve)
            /\ (\/ wind_vel[k] < CutInSpeed * SpeedsPerUnit
                \/ wind_vel[k] > CutOffSpeed * SpeedsPerUnit)
                  => power_production_curve[k] = 0
            /\ (/\ wind_vel[k] > CutInSpeed * SpeedsPerUnit
                /\ wind_vel[k] < CutOffSpeed * SpeedsPerUnit)
                  => power_production_curve[k] =
                        Entry(ProductionCoefficients, wind_vel[k])

\* C4: for a non-empty list of results find_maximum_power returns the
\* position of a turbine of maximal energy, the first of them in input
\* order, and iterate_turbine_library reports that turbine.
C4_FirstMaximum ==
    (call = "iterate_turbine_library" /\ pc # "run" /\ results # <<>>)
      => /\ pc = "done"
         /\ max_idx \in 1..Len(results)
         /\ \A k \in 1..Len(results) :
               /\ results[k].energy_produced_kWh
                     <= results[max_idx].energy_produced_kWh
               /\ k < max_idx =>
                     results[k].energy_produced_kWh
                        < results[max_idx].energy_produced_kWh
         /\ plotted = results[max_idx]

\* Three turbines, the second and third tied for the maximum: the second
\* was selected and reported.
C4_Witness ==
    /\ call = "iterate_turbine_library" /\ pc = "done"
    /\ Len(results) = 3
    /\ results[1].energy_produced_kWh < results[2].energy_produced_kWh
    /\ results[2].energy_produced_kWh = results[3].energy_produced_kWh
    /\ max_idx = 2
    /\ plotted.turbine_type = turbine_database[2]

\* C6: for every direction d < 0 or d >= 360 (360 included) classification
\* fails with InvalidParameter; the record is neither put in a sector nor
\* silently dropped.
C6_OutOfRangeRejected ==
    call = "wind_orientation"
      => \A k \in 1..i :
            (orientation[k] < 0 \/ orientation[k] >= 360)
               => pc = "raised" /\ error = "InvalidParameter"

\* C8: on a forecast with zero records the estimation and summary stages
\* end without an error and report total energy 0.
C8_EmptyForecastHandled ==
    /\ (call = "rayleigh" /\ pc # "run" /\ wind_velocity = <<>>)
          => pc = "done" /\ error = "none"
    /\ (call = "wind_power" /\ pc # "run" /\ wind_vel = <<>>)
          => pc = "done" /\ error = "none" /\ energy_all = 0

\* C10: the power curve wind_power applies is non-negative, non-decreasing
\* on [0, 20] m/s, equal to the rated 12 kW on [9, 20] and 0 above 20.
C10_MonotonicCurve ==
    (call = "wind_power" /\ pc = "done"
        /\ \A k \in 1..Len(wind_vel) : wind_vel[k] >= 0)
      => /\ Len(power_production_curve) = Len(wind_vel)
         /\ \A a \in 1..Len(wind_vel) :
               /\ power_production_curve[a] >= 0
               /\ (/\ wind_vel[a] >= RatedSpeed * SpeedsPerUnit
                   /\ wind_vel[a] <= CutOffSpeed * SpeedsPerUnit)
                     => power_production_curve[a] = RatedPower * PowerScale
               /\ wind_vel[a] > CutOffSpeed * SpeedsPerUnit
                     => power_production_curve[a] = 0
               /\ \A b \in 1..Len(wind_vel) :
                     (/\ wind_vel[a] <= wind_vel[b]
                      /\ wind_vel[b] <= CutOffSpeed * SpeedsPerUnit)
                        => power_production_curve[a]
                              <= power_production_curve[b]


\* The energy the k-th speed of the grid gives in forecast step r: the power
\* at that speed times the hours the wind blows at it.
EnergyOfBin(r, k) == power_speed[k] * hours[r][k]

\* C11: in wind_power, energy_out[i][k] is power_speed[k] * hours[i][k] for
\* every forecast step i and speed k, energy_per_3hours[i] is the sum over
\* k of these products and energy_all their sum over all i and k.
C11_EnergyPerSpeed ==
    (call = "wind_power" /\ pc = "done")
      => /\ Len(energy_out) = Len(hours)
         /\ \A r \in 1..Len(hours) :
               /\ Len(energy_out[r]) = Len(hours[r])
               /\ \A k \in 1..Len(hours[r]) :
                     energy_out[r][k] = EnergyOfBin(r, k)
               /\ energy_per_3hours[r] =
                     SumSeq([k \in 1..Len(hours[r]) |-> EnergyOfBin(r, k)])
         /\ energy_all =
               SumSeq([r \in 1..Len(hours) |->
                   SumSeq([k \in 1..Len(hours[r]) |-> EnergyOfBin(r, k)])])


\* The rows with power that wind_orientation's chain puts in sector s,
\* directions in [0,360) only, in file order.
RowsOfSector(s) ==
    LET Belongs(row) ==
            /\ row[3] >= 0 /\ row[3] < 360
            /\ Sector(row[3]) = s
    IN  SelectSeq(historical_new, Belongs)

\* C12: read_excel places every historical record with non-zero power and
\* direction d in [0,360) in the sector wind_orientation assigns to d, so
\* in north for d in [0,45] or [315,360), and in exactly one of the four
\* arrays it returns.
C12_ClassifiersAgree ==
    (call = "read_excel" /\ pc = "done")
      => /\ north = RowsOfSector("north")
         /\ east = RowsOfSector("east")
         /\ south = RowsOfSector("south")
         /\ west = RowsOfSector("west")


====
